---- MODULE Spec2Model ----
(***************************************************************************)
(* Model of turnover_master_cron.py: the per-category streaming            *)
(* melt / clean / group-sum / merge pipeline (build_group), the category   *)
(* runner (main) with its top-level exception handler, and the ticker      *)
(* normaliser (normalise_ticker).                                          *)
(*                                                                         *)
(* Strings are sequences of one-character strings.  Floats are records     *)
(* [k, v]: finite numbers, the two infinities and NaN, with IEEE addition. *)
(* The catalogue FILES and the contents of every S3 object are inputs:     *)
(* the length of each file list, the number of categories and each file's  *)
(* table are drawn when the code first reads them.                         *)
(***************************************************************************)
EXTENDS Integers, Sequences, FiniteSets

\* ---------------------------------------------------------------- bounds
\* Longest ticker string given to normalise_ticker in SpecNorm.
MaxLen == 3
\* Most data rows of one fetched CSV.
MaxRows == 1
\* Most files of one category (FILES has 3 per category).
MaxFiles == 3
\* Most categories of the catalogue.
MaxCats == 2

VARIABLES
  pc,        \* position of the single thread of control
  cat,       \* number of the category main is at (0 before the first)
  fileIdx,   \* build_group: number of the file the loop is at (0 before the first)
  df,        \* build_group local df: none, the wide table, or the long table
  grouped,   \* build_group local grouped
  acc,       \* build_group local acc (main's df once returned)
  saved,     \* categories save_parquet has uploaded
  failure,   \* the exception in flight or re-raised, and where it was raised
  held,      \* files of the current category whose intermediates are live
  raw,       \* history: what was fetched for the current file (shape as logged)
  cleaned,   \* history: every cleaned long record of the current category
  t_raw,     \* normalise_ticker: the argument
  t_norm,    \* normalise_ticker: the result
  t_done     \* normalise_ticker: has returned

vars == <<pc, cat, fileIdx, df, grouped, acc, saved, failure, held, raw,
          cleaned, t_raw, t_norm, t_done>>

pipeVars == <<pc, cat, fileIdx, df, grouped, acc, saved, failure, held, raw,
              cleaned>>

normVars == <<t_raw, t_norm, t_done>>

\* ------------------------------------------------------- normalise_ticker
\* The five delimiters, in the order of the for loop.
Delims == <<" ", "-", "/", ".", "_">>

DelimSet == {Delims[i] : i \in DOMAIN Delims}

\* Characters for which str.isalnum() is true.
AlnumChars == {"a", "A", "U", "1"}

\* The characters tickers are built from: letters, a digit, the five
\* delimiters and one character that is neither.
Chars == AlnumChars \cup DelimSet \cup {"$"}

\* str.upper() on one character.
UpperChar(ch) == CASE ch = "a" -> "A"
                   [] OTHER -> ch

Upper(t) == [i \in 1..Len(t) |-> UpperChar(t[i])]

\* t.split(d)[0]: the part of t before the first d, all of t when there is none.
SplitFirst(t, d) ==
  IF \E i \in 1..Len(t) : t[i] = d
  THEN LET p == CHOOSE i \in 1..Len(t) :
                  /\ t[i] = d
                  /\ \A j \in 1..(i - 1) : t[j] # d
       IN SubSeq(t, 1, p - 1)
  ELSE t

RECURSIVE SplitAll(_, _)
\* The for loop over the delimiters from the i-th on.
SplitAll(t, i) ==
  IF i > Len(Delims) THEN t ELSE SplitAll(SplitFirst(t, Delims[i]), i + 1)

IsAlnum(ch) == ch \in AlnumChars

\* A plausible slip: the underscore is missing from the delimiter list.
RECURSIVE SplitAllButLast(_, _)
SplitAllButLast(t, i) ==
  IF i >= Len(Delims) THEN t
  ELSE SplitAllButLast(SplitFirst(t, Delims[i]), i + 1)

normalise_ticker_no_underscore(t) ==
  SelectSeq(SplitAllButLast(Upper(t), 1), IsAlnum)

normalise_ticker(t) == SelectSeq(SplitAll(Upper(t), 1), IsAlnum)

\* All strings over Chars of length at most n.
StringsUpTo(n) == UNION {[1..k -> Chars] : k \in 0..n}

\* ------------------------------------------------------------ float64
Fin(n) == [k |-> "fin", v |-> n]

PosInf == [k |-> "inf", v |-> 1]

NegInf == [k |-> "inf", v |-> -1]

NaN == [k |-> "nan", v |-> 0]

\* IEEE-754 addition: NaN absorbs, inf + -inf is NaN, an infinity absorbs
\* every finite number.
FAdd(a, b) ==
  CASE a.k = "nan" \/ b.k = "nan" -> NaN
    [] a.k = "inf" /\ b.k = "inf" -> IF a.v = b.v THEN a ELSE NaN
    [] a.k = "inf" -> a
    [] b.k = "inf" -> b
    [] OTHER -> Fin(a.v + b.v)

\* ------------------------------------------------------ the CSV inputs
\* The two column labels of the end-to-end scenario: they differ literally
\* and normalise to the same identifier.
LabelSeq == << <<"A">>, <<"a", "-", "U">> >>

\* Texts of a date cell: two dates pd.to_datetime parses, one it rejects.
DateTexts == {"2024-01-01", "2024-01-02", "garbage"}

\* Texts of a value cell: finite numbers, the textual infinities, and a
\* text that is no number.
ValueTexts == {"1", "-1", "inf", "-inf", "n/a"}

\* The data-column headers a file can have (read_csv keeps headers distinct).
ColumnLists == {<<>>, <<LabelSeq[1]>>, <<LabelSeq[2]>>, LabelSeq}

WideRows(cols) == [date : DateTexts, cells : [1..Len(cols) -> ValueTexts]]

\* Every table load_from_s3 can return: a date column, the data columns
\* cols, and up to MaxRows rows.
Tables ==
  UNION {[kind : {"wide"}, cols : {cols}, rows : [1..n -> WideRows(cols)]] :
           cols \in ColumnLists, n \in 0..MaxRows}

NoTable == [kind |-> "none"]

\* ----------------------------------------------------------- melt_wide
\* df.melt(id_vars=[date_col]): one long row per (data column, row), column
\* by column; the first column is the id column whatever its name.
melt_wide(w) ==
  LET r == Len(w.rows)
      n == r * Len(w.cols)
  IN [kind |-> "long",
      rows |-> [i \in 1..n |->
                  LET c == ((i - 1) \div r) + 1
                      j == ((i - 1) % r) + 1
                  IN [date_raw |-> w.rows[j].date,
                      ticker |-> w.cols[c],
                      turnover |-> w.rows[j].cells[c]]]]

\* ------------------------------------------------------ the cleaning
\* pd.to_numeric(errors="coerce") on one cell.
to_numeric(txt) ==
  CASE txt = "1" -> Fin(1)
    [] txt = "-1" -> Fin(-1)
    [] txt = "inf" -> PosInf
    [] txt = "-inf" -> NegInf
    [] OTHER -> NaN

\* pd.to_datetime accepts the text (errors="raise" is the default).
DateParses(txt) == txt \in {"2024-01-01", "2024-01-02"}

\* pd.to_datetime on one text: the day (0 is NaT, which errors="raise"
\* never returns).
to_datetime(txt) ==
  CASE txt = "2024-01-01" -> 1
    [] txt = "2024-01-02" -> 2
    [] OTHER -> 0

NotNa(row) == row.turnover.k # "nan"

\* Lines 110-111: ticker_norm is attached and turnover coerced.
Coerced(rows) ==
  [i \in 1..Len(rows) |->
     [date_raw |-> rows[i].date_raw,
      ticker |-> rows[i].ticker,
      ticker_norm |-> normalise_ticker(rows[i].ticker),
      turnover |-> to_numeric(rows[i].turnover)]]

\* A plausible slip: the dropna of line 112 is left out.
DropNaLeftOut(rows) == rows

\* Line 112: df.dropna(subset=["turnover"]).
DropNa(rows) == SelectSeq(rows, NotNa)

\* A plausible slip: errors="coerce" given to pd.to_datetime too, so that
\* line 113 never raises.
DateColumnCoerced(rows) == TRUE

\* Line 113 raises when a date of a remaining row is rejected.
DateColumnParses(rows) == \A i \in 1..Len(rows) : DateParses(rows[i].date_raw)

\* Line 113: df["date"] = pd.to_datetime(df.iloc[:, 0]).
WithDate(rows) ==
  [i \in 1..Len(rows) |->
     [date_raw |-> rows[i].date_raw,
      ticker |-> rows[i].ticker,
      ticker_norm |-> rows[i].ticker_norm,
      turnover |-> rows[i].turnover,
      date |-> to_datetime(rows[i].date_raw)]]

\* --------------------------------------------------- groupby(...).sum
KeyOf(row) == <<row.date, row.ticker, row.ticker_norm>>

Keys(rows) == {KeyOf(rows[i]) : i \in 1..Len(rows)}

TickerRank(t) == CHOOSE i \in 1..Len(LabelSeq) : LabelSeq[i] = t

\* groupby sorts the group keys.
KeyLeq(a, b) ==
  \/ a[1] < b[1]
  \/ a[1] = b[1] /\ TickerRank(a[2]) <= TickerRank(b[2])

RECURSIVE SortKeys(_)
SortKeys(S) ==
  IF S = {} THEN <<>>
  ELSE LET m == CHOOSE x \in S : \A y \in S : KeyLeq(x, y)
       IN <<m>> \o SortKeys(S \ {m})

RECURSIVE group_sum(_, _, _, _)
\* The cython group_sum of one group, from row i of the frame on, sumx being
\* the sum so far: a NaN entry is skipped, so a group of NaN entries only
\* sums to 0 (min_count=0).
group_sum(rows, key, i, sumx) ==
  IF i > Len(rows) THEN sumx
  ELSE IF KeyOf(rows[i]) = key /\ rows[i].turnover.k # "nan"
       THEN group_sum(rows, key, i + 1, FAdd(sumx, rows[i].turnover))
       ELSE group_sum(rows, key, i + 1, sumx)

\* groupby(["date","ticker","ticker_norm"], as_index=False).agg(turnover=sum).
GroupSum(rows) ==
  LET ks == SortKeys(Keys(rows))
  IN [i \in 1..Len(ks) |->
        [date |-> ks[i][1],
         ticker |-> ks[i][2],
         ticker_norm |-> ks[i][3],
         turnover |-> group_sum(rows, ks[i], 1, Fin(0))]]

\* The four columns of an aggregate, of a row of the cleaned frame.
Project(rows) ==
  [i \in 1..Len(rows) |->
     [date |-> rows[i].date,
      ticker |-> rows[i].ticker,
      ticker_norm |-> rows[i].ticker_norm,
      turnover |-> rows[i].turnover]]

NoFrame == [set |-> FALSE, rows |-> <<>>]

Frame(rows) == [set |-> TRUE, rows |-> rows]

\* ------------------------------------------------------------ history
NoRaw == [some |-> FALSE, shape |-> <<0, 0>>, anyBadDate |-> FALSE,
          keptBadDate |-> FALSE]

\* What the fetch of table w is remembered by: the shape line 105 logs (rows,
\* columns with the date column), whether a row holds a rejected date, and
\* whether such a row also holds a value cell that is a number.
RawOf(w) ==
  [some |-> TRUE,
   shape |-> <<Len(w.rows), Len(w.cols) + 1>>,
   anyBadDate |-> \E i \in 1..Len(w.rows) : ~DateParses(w.rows[i].date),
   keptBadDate |->
     \E i \in 1..Len(w.rows) :
       /\ ~DateParses(w.rows[i].date)
       /\ \E c \in 1..Len(w.cols) : to_numeric(w.rows[i].cells[c]).k # "nan"]

NoFailure == [error |-> "none", cat |-> 0, fileIdx |-> 0]

\* An exception leaves build_group and main: control is at the handler of
\* line 195, the frames' locals are as they were.
Raise(e, idx) ==
  /\ pc' = "except"
  /\ failure' = [error |-> e, cat |-> cat, fileIdx |-> idx]

\* ------------------------------------------------------------- actions
Init ==
  /\ pc = "main_loop"
  /\ cat = 0
  /\ fileIdx = 0
  /\ df = NoTable
  /\ grouped = NoFrame
  /\ acc = NoFrame
  /\ saved = {}
  /\ failure = NoFailure
  /\ held = {}
  /\ raw = NoRaw
  /\ cleaned = <<>>
  /\ t_raw = <<>>
  /\ t_norm = <<>>
  /\ t_done = FALSE

\* main, line 176-179: the next category of FILES, build_group is entered
\* (acc = None, line 98).
NextCategory ==
  /\ pc = "main_loop"
  /\ cat < MaxCats
  /\ cat' = cat + 1
  /\ pc' = "bg_loop"
  /\ fileIdx' = 0
  /\ acc' = NoFrame
  /\ df' = NoTable
  /\ grouped' = NoFrame
  /\ held' = {}
  /\ raw' = NoRaw
  /\ cleaned' = <<>>
  /\ UNCHANGED <<saved, failure, normVars>>

\* main, line 187-189: FILES is exhausted.
AllDone ==
  /\ pc = "main_loop"
  /\ pc' = "done"
  /\ UNCHANGED <<cat, fileIdx, df, grouped, acc, saved, failure, held, raw,
                 cleaned, normVars>>

\* build_group, lines 100-105: the next key of file_list is fetched, or
\* load_from_s3 raises (get_object, read_csv).
Load ==
  /\ pc = "bg_loop"
  /\ fileIdx < MaxFiles
  /\ fileIdx' = fileIdx + 1
  /\ \/ /\ \E w \in Tables :
             /\ df' = w
             /\ raw' = RawOf(w)
        /\ held' = held \cup {fileIdx + 1}
        /\ pc' = "melt"
        /\ UNCHANGED failure
     \/ /\ Raise("FetchError", fileIdx + 1)
        /\ UNCHANGED <<df, raw, held>>
  /\ UNCHANGED <<cat, grouped, acc, saved, cleaned, normVars>>

\* build_group, line 100: file_list is exhausted.
LoopEnd ==
  /\ pc = "bg_loop"
  /\ pc' = "bg_return"
  /\ UNCHANGED <<cat, fileIdx, df, grouped, acc, saved, failure, held, raw,
                 cleaned, normVars>>

\* A plausible variant: melt_wide checks the shape and raises on a table
\* without data columns.
MeltShapeChecked ==
  /\ pc = "melt"
  /\ IF Len(df.cols) = 0
     THEN Raise("ShapeError", fileIdx) /\ UNCHANGED df
     ELSE df' = melt_wide(df) /\ pc' = "clean" /\ UNCHANGED failure
  /\ UNCHANGED <<cat, fileIdx, grouped, acc, saved, held, raw, cleaned,
                 normVars>>

\* build_group, lines 107-108: df = melt_wide(df).
Melt ==
  /\ pc = "melt"
  /\ df' = melt_wide(df)
  /\ pc' = "clean"
  /\ UNCHANGED <<cat, fileIdx, grouped, acc, saved, failure, held, raw,
                 cleaned, normVars>>

\* build_group, lines 110-113: ticker_norm, numeric coercion, dropna, and the
\* date column parsed on the rows that are left (it raises on a rejected one).
Clean ==
  /\ pc = "clean"
  /\ LET kept == DropNa(Coerced(df.rows))
     IN IF DateColumnParses(kept)
        THEN /\ df' = [kind |-> "long", rows |-> WithDate(kept)]
             /\ cleaned' = cleaned \o Project(WithDate(kept))
             /\ pc' = "group"
             /\ UNCHANGED failure
        ELSE /\ Raise("DateParseError", fileIdx)
             /\ UNCHANGED <<df, cleaned>>
  /\ UNCHANGED <<cat, fileIdx, grouped, acc, saved, held, raw, normVars>>

\* build_group, lines 116-120: the per-file aggregate.
Group ==
  /\ pc = "group"
  /\ grouped' = Frame(GroupSum(df.rows))
  /\ pc' = "merge"
  /\ UNCHANGED <<cat, fileIdx, df, acc, saved, failure, held, raw, cleaned,
                 normVars>>

\* build_group, lines 123-133: the fold into the accumulator.
Merge ==
  /\ pc = "merge"
  /\ acc' = IF ~acc.set THEN grouped
            ELSE Frame(GroupSum(acc.rows \o grouped.rows))
  /\ pc' = "free"
  /\ UNCHANGED <<cat, fileIdx, df, grouped, saved, failure, held, raw,
                 cleaned, normVars>>

\* A plausible slip: the intermediates are kept (appended to a list of
\* frames, as in the load-everything variant) instead of deleted.
FreeMemoryKept ==
  /\ pc = "free"
  /\ raw' = NoRaw
  /\ pc' = "bg_loop"
  /\ UNCHANGED <<cat, fileIdx, df, grouped, held, acc, saved, failure,
                 cleaned, normVars>>

\* build_group, lines 136-137: del df, grouped; gc.collect().
FreeMemory ==
  /\ pc = "free"
  /\ df' = NoTable
  /\ grouped' = NoFrame
  /\ held' = held \ {fileIdx}
  /\ raw' = NoRaw
  /\ pc' = "bg_loop"
  /\ UNCHANGED <<cat, fileIdx, acc, saved, failure, cleaned, normVars>>

\* build_group, lines 139-144: len(acc) is logged and acc returned; len(None)
\* raises TypeError.
Return ==
  /\ pc = "bg_return"
  /\ IF acc.set
     THEN pc' = "save" /\ UNCHANGED failure
     ELSE Raise("TypeError", fileIdx)
  /\ UNCHANGED <<cat, fileIdx, df, grouped, acc, saved, held, raw, cleaned,
                 normVars>>

\* main, lines 180-185: save_parquet uploads the table and main drops it, or
\* to_parquet / put_object raises.
Save ==
  /\ pc = "save"
  /\ \/ /\ saved' = saved \cup {cat}
        /\ acc' = NoFrame
        /\ pc' = "main_loop"
        /\ UNCHANGED failure
     \/ /\ Raise("SinkError", fileIdx)
        /\ UNCHANGED <<saved, acc>>
  /\ UNCHANGED <<cat, fileIdx, df, grouped, held, raw, cleaned, normVars>>

\* A plausible slip: the handler logs the error and the loop over the
\* categories goes on, instead of re-raising.
TopLevelExceptSwallowed ==
  /\ pc = "except"
  /\ pc' = "main_loop"
  /\ UNCHANGED <<cat, fileIdx, df, grouped, acc, saved, failure, held, raw,
                 cleaned, normVars>>

\* Lines 193-197: the handler logs and re-raises; the process ends.
TopLevelExcept ==
  /\ pc = "except"
  /\ pc' = "raised"
  /\ UNCHANGED <<cat, fileIdx, df, grouped, acc, saved, failure, held, raw,
                 cleaned, normVars>>

Next ==
  \/ NextCategory
  \/ AllDone
  \/ Load
  \/ LoopEnd
  \/ Melt
  \/ Clean
  \/ Group
  \/ Merge
  \/ FreeMemory
  \/ Return
  \/ Save
  \/ TopLevelExcept

Spec == Init /\ [][Next]_vars

\* ------------------------------------- normalise_ticker on every string
InitNorm ==
  /\ pc = "main_loop"
  /\ cat = 0
  /\ fileIdx = 0
  /\ df = NoTable
  /\ grouped = NoFrame
  /\ acc = NoFrame
  /\ saved = {}
  /\ failure = NoFailure
  /\ held = {}
  /\ raw = NoRaw
  /\ cleaned = <<>>
  /\ t_raw \in StringsUpTo(MaxLen)
  /\ t_norm = <<>>
  /\ t_done = FALSE

Normalise ==
  /\ ~t_done
  /\ t_norm' = normalise_ticker(t_raw)
  /\ t_done' = TRUE
  /\ UNCHANGED <<t_raw, pipeVars>>

NextNorm == Normalise

SpecNorm == InitNorm /\ [][NextNorm]_vars

\* ------------------------------------------------------------- claims
SameRows(a, b) ==
  /\ Len(a) = Len(b)
  /\ {a[i] : i \in 1..Len(a)} = {b[i] : i \in 1..Len(b)}

UniqueKeys(rows) ==
  \A i, j \in 1..Len(rows) : KeyOf(rows[i]) = KeyOf(rows[j]) => i = j

RECURSIVE IeeeSum(_, _)
\* The float sum of the turnover of rows i.. of a frame, nothing skipped.
IeeeSum(rows, i) ==
  IF i > Len(rows) THEN Fin(0)
  ELSE FAdd(rows[i].turnover, IeeeSum(rows, i + 1))

\* The rows of a frame for date d under the raw label t.
CellsOf(rows, d, t) ==
  SelectSeq(rows, LAMBDA r : r.date = d /\ r.ticker = t)

\* The stages of build_group's loop body after the cleaning of the file.
PostClean == {"group", "merge", "free"}

Halted == pc \in {"except", "raised"}

\* C1: after every fold, and when build_group returns, the accumulator holds
\* the same keys and sums as one group-by-sum over all the cleaned records of
\* the files folded so far (row order ignored).
C1_FoldEqualsMonolithic ==
  pc \in {"free", "save"} => SameRows(acc.rows, GroupSum(cleaned))

\* C2: once a fetch or a clean step has raised, control is at the top-level
\* handler or the process has ended with the exception re-raised: the
\* category is not saved, and no further file or category is begun.
C2_FailureHaltsBatch ==
  failure.error \in {"FetchError", "DateParseError"} =>
    /\ Halted
    /\ failure.cat \notin saved
    /\ cat = failure.cat
    /\ fileIdx = failure.fileIdx
    /\ \A c \in saved : c < failure.cat

\* C2 witness: the second category fails in the cleaning of its second file,
\* with a partial accumulator in hand, after the first category was saved.
C2_Witness ==
  /\ pc = "raised"
  /\ failure.error = "DateParseError"
  /\ cat = 2
  /\ fileIdx = 2
  /\ acc.set /\ acc.rows # <<>>
  /\ saved = {1}

\* C3 as claimed: every record that survives the cleaning has a finite value
\* that is at least zero.
C3_ValuesFiniteNonNegative ==
  /\ pc = "group" =>
       \A i \in 1..Len(df.rows) :
         df.rows[i].turnover.k = "fin" /\ df.rows[i].turnover.v >= 0
  /\ \A i \in 1..Len(cleaned) :
       cleaned[i].turnover.k = "fin" /\ cleaned[i].turnover.v >= 0

\* C3 as amended: every record that survives the cleaning, and so every
\* record summed, has a value that is a number (not NaN): it is the coerced
\* cell, which may be negative or infinite.
C3_ValuesAreNumbers ==
  /\ pc = "group" =>
       \A i \in 1..Len(df.rows) : df.rows[i].turnover.k \in {"fin", "inf"}
  /\ \A i \in 1..Len(cleaned) : cleaned[i].turnover.k \in {"fin", "inf"}

\* C3 witness: a file of two cells, one dropped as no number and one kept
\* although it is negative and infinite.
C3_Witness ==
  /\ pc = "group"
  /\ raw.shape = <<1, 3>>
  /\ Len(df.rows) = 1
  /\ df.rows[1].turnover = NegInf

\* C4 as claimed: a file with a rejected date in any row never gets past the
\* cleaning.
C4_AnyBadDateRaises == raw.anyBadDate => pc \notin PostClean

\* C4 as amended: a file with a rejected date in a row that keeps a numeric
\* value never gets past the cleaning: it raises there, before its aggregate
\* is built, so nothing of it is folded; a rejected date raises only when
\* its row is such a row.
C4_KeptBadDateRaises ==
  /\ raw.keptBadDate => pc \in {"melt", "clean", "except", "raised"}
  /\ raw.keptBadDate /\ Halted =>
       /\ failure.error = "DateParseError"
       /\ failure.fileIdx = fileIdx
       /\ df.kind = "long" /\ ~grouped.set
       /\ Keys(acc.rows) = Keys(cleaned)
  /\ failure.error = "DateParseError" => raw.keptBadDate

\* C4 witness: the third file raises in the cleaning on a rejected date.
C4_Witness ==
  /\ pc = "raised"
  /\ failure.error = "DateParseError"
  /\ raw.keptBadDate
  /\ fileIdx = 3

\* C6 as claimed: a table with a date column and no data column raises, it
\* is never melted into an empty frame and carried on.
C6_ZeroDataColumnsRaises ==
  raw.some /\ raw.shape[2] = 1 => pc \notin {"clean", "group", "merge", "free"}

\* C6 as amended: a table with a date column and no data column raises
\* nothing: it melts to no long row, its aggregate is empty, and the fold
\* leaves the accumulator with the keys it had.
C6_ZeroDataColumnsFoldEmpty ==
  raw.some /\ raw.shape[2] = 1 =>
    /\ failure = NoFailure
    /\ pc \in {"melt", "clean", "group", "merge", "free"}
    /\ pc \in {"clean", "group"} => df.kind = "long" /\ df.rows = <<>>
    /\ pc \in {"merge", "free"} => grouped = Frame(<<>>)
    /\ pc = "free" => acc.set /\ Keys(acc.rows) = Keys(cleaned)

\* C6 witness: a one-row table without data columns has been folded into an
\* accumulator that holds rows.
C6_Witness ==
  /\ pc = "free"
  /\ raw.shape = <<1, 1>>
  /\ acc.rows # <<>>

\* C5: build_group on an empty file list returns an empty table or raises an
\* error of its own choosing; it does not fail on len(None).
C5_EmptyCategoryWellDefined ==
  /\ pc = "save" /\ fileIdx = 0 => acc.set /\ acc.rows = <<>>
  /\ failure.error # "TypeError"

\* C7: the accumulator after every fold and every per-file aggregate have at
\* most one row per key, and aggregating them again by the same key leaves
\* them as they are.
C7_UniqueAndIdempotent ==
  pc = "free" =>
    /\ UniqueKeys(acc.rows)
    /\ UniqueKeys(grouped.rows)
    /\ GroupSum(acc.rows) = acc.rows
    /\ GroupSum(grouped.rows) = grouped.rows

\* C8: in the returned accumulator every (date, raw label) that has a
\* cleaned cell has one row of its own, its turnover is the float sum of the
\* cells under that very label on that date over all files, and its
\* ticker_norm is the label's normal form (the same for both labels).
C8_RawLabelsKeptApart ==
  pc = "save" =>
    /\ normalise_ticker(LabelSeq[1]) = normalise_ticker(LabelSeq[2])
    /\ \A d \in {1, 2} : \A n \in 1..Len(LabelSeq) :
         LET cells == CellsOf(cleaned, d, LabelSeq[n])
             mine == CellsOf(acc.rows, d, LabelSeq[n])
         IN IF cells = <<>> THEN mine = <<>>
            ELSE /\ Len(mine) = 1
                 /\ mine[1].ticker_norm = normalise_ticker(LabelSeq[n])
                 /\ mine[1].turnover = IeeeSum(cells, 1)

\* The first position of t that holds a delimiter, Len(t) + 1 when none does.
FirstDelim(t) ==
  IF \E i \in 1..Len(t) : t[i] \in DelimSet
  THEN CHOOSE i \in 1..Len(t) :
         /\ t[i] \in DelimSet
         /\ \A j \in 1..(i - 1) : t[j] \notin DelimSet
  ELSE Len(t) + 1

\* The reference rule: uppercase, cut at the earliest delimiter, drop what
\* is not alphanumeric.
RefNormalise(t) ==
  LET u == Upper(t)
  IN SelectSeq(SubSeq(u, 1, FirstDelim(u) - 1), IsAlnum)

\* C9: normalise_ticker returns, for every string, what the reference rule
\* gives (the empty string included).
C9_NormaliseMatchesReference == t_done => t_norm = RefNormalise(t_raw)

\* C9 witness: a string whose earliest delimiter is the last of the loop and
\* is followed by the first of the loop.
C9_Witness ==
  /\ t_done
  /\ t_raw = <<"a", "_", " ">>
  /\ t_norm = <<"A">>

\* C10: the live intermediates are those of the file the loop is at and of
\* no other, and none is live when the loop fetches the next file.
C10_OneFileAtATime ==
  /\ held \subseteq {fileIdx}
  /\ df.kind # "none" \/ grouped.set => held = {fileIdx}
  /\ pc = "bg_loop" => held = {} /\ df.kind = "none" /\ ~grouped.set

\* C10 witness: the third file's table is held, those of the first two are
\* not, and the accumulator holds their rows.
C10_Witness ==
  /\ pc = "melt"
  /\ fileIdx = 3
  /\ held = {3}
  /\ acc.rows # <<>>

====
